---- MODULE Spec2Model ----
(***************************************************************************)
(* WebFetch MCP server (src/WebFetch/main.py): the shared HTTP session,    *)
(* the single-page operations and the bounded-concurrency batch fetch,     *)
(* as a state machine over the suspension points of the asyncio event loop *)
(* (a coroutine runs atomically between two suspension points; the only    *)
(* suspension points are the semaphore wait, the network I/O of a GET and  *)
(* gather).                                                                *)
(***************************************************************************)
EXTENDS Integers, Sequences, FiniteSets, TLC

VARIABLES
    session,      \* self.session: NoSession (None) or the id of a ClientSession
    opened,       \* ids of every ClientSession constructed so far
    closed,       \* ids of the sessions whose .closed is True
    sessTimeout,  \* session._timeout.total of the object self.session refers to
    cleanups,     \* number of cleanup() calls that closed a session
    op,           \* the independent single-page tool calls
    bpc,          \* position of the one fetch_multiple_pages call
    bargs,        \* its args dict
    semValue,     \* asyncio.Semaphore._value
    waiters,      \* asyncio.Semaphore._waiters not yet woken, FIFO
    task,         \* the fetch_single tasks handed to gather, by input index
    doneOrder,    \* indices of the finished tasks, in completion order
    bresult,      \* value returned by fetch_multiple_pages
    srv,          \* the server process that owns the WebFetchMCP
    doc,          \* the document a GET retrieved, as the parser sees it
    page,         \* one fetch_webpage / get_page_metadata call on doc
    links,        \* one extract_links call on a retrieved document
    search,       \* one search_webpage_content call on extracted content
    reply         \* the HTTP server's POST requests and its replies to them

vars == <<session, opened, closed, sessTimeout, cleanups, op,
          bpc, bargs, semValue, waiters, task, doneOrder, bresult,
          srv, doc, page, links, search, reply>>

\* The state of the calls that are followed from the retrieved body on, and
\* of the HTTP requests that are followed up to the tool they reach.
bodyVars == <<doc, page, links, search, reply>>

sessVars == <<session, opened, closed, sessTimeout, cleanups>>
batchVars == <<bpc, bargs, semValue, waiters, task, doneOrder, bresult>>

----------------------------------------------------------------------------
(* Bounds of the model *)

MaxUrls == 3          \* longest urls list of a batch
MaxConcurrent == 2    \* largest max_concurrent a caller passes explicitly
MaxOps == 2           \* single-page tool calls that may run concurrently
MaxCleanups == 1      \* cleanup() calls that find an open session

(* Program constants *)

NoSession == 0                 \* self.session = None
SessionDefaultTimeout == 30    \* aiohttp.ClientTimeout(total=30) in _get_session
FetchDefaultTimeout == 30      \* args.get("timeout", 30)
DefaultMaxConcurrent == 5      \* args.get("max_concurrent", 5)

(* Inputs *)

Urls == {"u1", "u2", "u3"}
OpUrls == {"u1"}
CallerTimeouts == {5}
Statuses == {200, 304, 404}
OpKinds == {"fetch_webpage", "search_webpage_content", "extract_links",
            "get_page_metadata"}

\* What the network answers to one GET: a response with a status code, the
\* call's deadline passing first, or a connection/DNS/TLS failure.
Responses ==
    [type : {"status"}, code : Statuses]
        \cup {[type |-> "timeout", code |-> 0], [type |-> "network", code |-> 0]}

\* No step depends on which URL a position holds, only on whether two positions
\* hold the same one, so the urls lists are taken up to renaming: the first
\* URL is u1, the next new one u2, then u3.
Rank(u) == CASE u = "u1" -> 1 [] u = "u2" -> 2 [] OTHER -> 3

Canonical(us) ==
    \A i \in DOMAIN us : \A u \in Urls :
        Rank(u) < Rank(us[i]) => \E j \in 1..(i - 1) : us[j] = u

UrlLists ==
    UNION {{us \in [1..n -> Urls] : Canonical(us)} : n \in 0..MaxUrls}

None == [none |-> TRUE]

\* No server process is followed (the calls are looked at on their own).
NoServer == [kind |-> "none", pc |-> "none", how |-> "none"]

\* dict.get(key, default)
Get(args, key, default) == IF key \in DOMAIN args THEN args[key] ELSE default

----------------------------------------------------------------------------
(* Exceptions and the failure dicts built from them *)

\* The exception a GET ends with, if any.  response.raise_for_status() raises
\* ClientResponseError exactly when the status is 400 or more.
RaisesForStatus(code) == code >= 400

ExceptionOf(resp) ==
    IF resp.type = "timeout" THEN [exc |-> "TimeoutError", code |-> 0]
    ELSE IF resp.type = "network" THEN [exc |-> "ClientConnectorError", code |-> 0]
    ELSE [exc |-> "ClientResponseError", code |-> resp.code]

SessionError == [exc |-> "RuntimeError", code |-> 0]

\* str(e), as a sequence of tokens.  str(asyncio.TimeoutError()) is "".
Str(e, url) ==
    IF e.exc = "ClientResponseError"
        THEN <<ToString(e.code), ", message=", ", url=", url>>
    ELSE IF e.exc = "ClientConnectorError"
        THEN <<"Cannot connect to host ", url>>
    ELSE IF e.exc = "TimeoutError" THEN <<>>
    ELSE <<"Session could not be created">>

IsException(r) == "exc" \in DOMAIN r
IsDict(r) == r # None /\ ~IsException(r)

----------------------------------------------------------------------------
(* The shared session: _get_session *)

NeedsNewSession_Always == TRUE

NeedsNewSession_OnlyNone == session = NoSession

\* `if self.session is None or self.session.closed`
NeedsNewSession == session = NoSession \/ session \in closed

NewSessionId == Cardinality(opened) + 1

\* _get_session has no suspension point.  `fails` is the environment's choice
\* that the ClientSession constructor raises; it only matters when a session
\* is constructed.  raised: the exception leaves _get_session; id: the value
\* returned; created: a new ClientSession was constructed.
GetSession(fails) ==
    IF NeedsNewSession
        THEN IF fails
            THEN [raised |-> TRUE, id |-> session, created |-> FALSE]
            ELSE [raised |-> FALSE, id |-> NewSessionId, created |-> TRUE]
        ELSE [raised |-> FALSE, id |-> session, created |-> FALSE]

\* session._timeout of the session _get_session returned, before the caller
\* touches it.
TimeoutOfGot(g) == IF g.created THEN SessionDefaultTimeout ELSE sessTimeout

\* A handler up to the suspension point of its GET: the session it holds, the
\* session state it leaves behind, and the timeout session.get() reads from
\* session._timeout (`used`).  An exception of _get_session is outside the
\* handler's try block and leaves the handler.
Raised ==
    [raised |-> TRUE, session |-> session, opened |-> opened,
     sessTimeout |-> sessTimeout, used |-> 0, sess |-> NoSession]

Began(g, newTimeout) ==
    [raised |-> FALSE, session |-> g.id,
     opened |-> IF g.created THEN opened \cup {g.id} ELSE opened,
     sessTimeout |-> newTimeout, used |-> newTimeout, sess |-> g.id]

\* _fetch_webpage, lines 231-240: `session._timeout = ClientTimeout(total=timeout)`
FetchWebpageBegin(args, fails) ==
    LET g == GetSession(fails)
    IN  IF g.raised THEN Raised
        ELSE Began(g, Get(args, "timeout", FetchDefaultTimeout))

\* _extract_links, lines 374-383, and _get_page_metadata, lines 439-444: the
\* GET runs under whatever session._timeout holds.
ExtractLinksBegin(args, fails) ==
    LET g == GetSession(fails)
    IN  IF g.raised THEN Raised ELSE Began(g, TimeoutOfGot(g))

GetPageMetadataBegin(args, fails) ==
    LET g == GetSession(fails)
    IN  IF g.raised THEN Raised ELSE Began(g, TimeoutOfGot(g))

\* The args _search_webpage_content passes to _fetch_webpage (no timeout).
SearchFetchArgs(args) ==
    [url |-> args.url, extract_content |-> TRUE, include_metadata |-> FALSE]

SearchBegin(args, fails) == FetchWebpageBegin(SearchFetchArgs(args), fails)

\* The handlers from the response to their return value.  Everything after the
\* GET is inside `try ... except Exception`, so every exception of the GET
\* becomes a dict.  The fields computed from the body (content, metadata,
\* links, matches) are left out of the dicts of this specification.
FetchWebpageEnd(args, resp) ==
    IF resp.type = "status" /\ ~RaisesForStatus(resp.code)
        THEN [url |-> args.url, status_code |-> resp.code]
        ELSE [url |-> args.url, error |-> Str(ExceptionOf(resp), args.url),
              status |-> "failed"]

ExtractLinksEnd(args, resp) ==
    IF resp.type = "status" /\ ~RaisesForStatus(resp.code)
        THEN [source_url |-> args.url]
        ELSE [source_url |-> args.url,
              error |-> Str(ExceptionOf(resp), args.url), status |-> "failed"]

GetPageMetadataEnd(args, resp) ==
    IF resp.type = "status" /\ ~RaisesForStatus(resp.code)
        THEN [url |-> args.url, status_code |-> resp.code]
        ELSE [url |-> args.url, error |-> Str(ExceptionOf(resp), args.url),
              status |-> "failed"]

SearchEnd(args, resp) ==
    LET webpage_result == FetchWebpageEnd(SearchFetchArgs(args), resp)
    IN  IF "error" \in DOMAIN webpage_result THEN webpage_result
        ELSE [url |-> args.url, search_terms |-> args.search_terms]

HandlerBegin(kind, args, fails) ==
    CASE kind = "fetch_webpage" -> FetchWebpageBegin(args, fails)
      [] kind = "search_webpage_content" -> SearchBegin(args, fails)
      [] kind = "extract_links" -> ExtractLinksBegin(args, fails)
      [] kind = "get_page_metadata" -> GetPageMetadataBegin(args, fails)

HandlerEnd(kind, args, resp) ==
    CASE kind = "fetch_webpage" -> FetchWebpageEnd(args, resp)
      [] kind = "search_webpage_content" -> SearchEnd(args, resp)
      [] kind = "extract_links" -> ExtractLinksEnd(args, resp)
      [] kind = "get_page_metadata" -> GetPageMetadataEnd(args, resp)

\* The args dicts a caller may pass to each tool (url always supplied).
ArgsOf(kind) ==
    CASE kind = "fetch_webpage" ->
            {[url |-> u] : u \in OpUrls}
                \cup {[url |-> u, timeout |-> t] : u \in OpUrls, t \in CallerTimeouts}
      [] kind = "search_webpage_content" ->
            {[url |-> u, search_terms |-> <<"term">>] : u \in OpUrls}
      [] OTHER -> {[url |-> u] : u \in OpUrls}

----------------------------------------------------------------------------
(* Single-page tool calls *)

IdleOp == [pc |-> "idle", kind |-> "", args |-> None, used |-> 0,
           sess |-> NoSession, resp |-> None, result |-> None]

SetSession(b) ==
    /\ session' = b.session
    /\ opened' = b.opened
    /\ sessTimeout' = b.sessTimeout
    /\ UNCHANGED <<closed, cleanups>>

\* A tool is called and runs to the suspension point of its GET, or raises.
CallOp(o, kind, args, fails) ==
    /\ op[o].pc = "idle"
    /\ LET b == HandlerBegin(kind, args, fails)
       IN  /\ SetSession(b)
           /\ op' = [op EXCEPT ![o] =
                        [pc |-> IF b.raised THEN "raised" ELSE "inflight",
                         kind |-> kind, args |-> args, used |-> b.used,
                         sess |-> b.sess, resp |-> None,
                         result |-> IF b.raised THEN SessionError ELSE None]]
    /\ UNCHANGED batchVars
    /\ UNCHANGED <<srv, bodyVars>>

\* The GET of a tool call ends and the handler returns its dict.
CompleteOp(o, resp) ==
    /\ op[o].pc = "inflight"
    /\ op' = [op EXCEPT ![o].pc = "returned", ![o].resp = resp,
                        ![o].result = HandlerEnd(op[o].kind, op[o].args, resp)]
    /\ UNCHANGED <<sessVars, batchVars>>
    /\ UNCHANGED <<srv, bodyVars>>

\* The effect of `await mcp_server.cleanup()` on the sessions.
ClosedAfterCleanup ==
    IF session # NoSession /\ session \notin closed
        THEN closed \cup {session}
        ELSE closed

\* cleanup(), lines 531-534, called at any time.
Cleanup ==
    /\ cleanups < MaxCleanups
    /\ closed' = ClosedAfterCleanup
    /\ cleanups' = cleanups + 1
    /\ UNCHANGED <<session, opened, sessTimeout, op, batchVars>>
    /\ UNCHANGED <<srv, bodyVars>>

----------------------------------------------------------------------------
(* fetch_multiple_pages: asyncio.Semaphore(max_concurrent) and gather *)

BatchArgsSet ==
    UNION {{[urls |-> us],
            [urls |-> us, max_concurrent |-> k],
            [urls |-> us, timeout |-> t],
            [urls |-> us, max_concurrent |-> k, timeout |-> t]} :
           us \in UrlLists, k \in 0..MaxConcurrent, t \in CallerTimeouts}

NewTask == [pc |-> "new", attempts |-> 0, used |-> 0, sess |-> NoSession,
            resp |-> None, result |-> None]

Tasks == DOMAIN task

\* The args fetch_single passes to _fetch_webpage for urls[i], lines 300-305.
ItemArgs(i) ==
    [url |-> bargs.urls[i],
     extract_content |-> Get(bargs, "extract_content", TRUE),
     include_metadata |-> Get(bargs, "include_metadata", TRUE),
     timeout |-> Get(bargs, "timeout", FetchDefaultTimeout)]

Locked_Never == FALSE

\* Semaphore.locked(): no free slot, or someone is queued ahead (a woken
\* waiter stays in the queue until its task runs again).
Locked ==
    semValue = 0 \/ \E j \in Tasks : task[j].pc \in {"waiting", "granted"}

SemRelease_WakeLast(value, ws) ==
    IF ws = <<>>
        THEN [value |-> value + 1, waiters |-> ws, woken |-> 0]
        ELSE [value |-> value, waiters |-> SubSeq(ws, 1, Len(ws) - 1),
              woken |-> ws[Len(ws)]]

SemRelease_NoWake(value, ws) ==
    [value |-> value + 1, waiters |-> ws, woken |-> 0]

\* Semaphore.release() on leaving `async with semaphore`: the slot goes back,
\* and if a task is queued the first one is woken and the slot is taken on
\* its behalf.  woken = 0: nobody was queued.
SemRelease(value, ws) ==
    IF ws = <<>>
        THEN [value |-> value + 1, waiters |-> ws, woken |-> 0]
        ELSE [value |-> value, waiters |-> Tail(ws), woken |-> Head(ws)]

ReturnExceptions_False == FALSE

\* return_exceptions=True, line 308: an exception leaving a task is stored as
\* that task's result instead of leaving gather.
ReturnExceptions == TRUE

GatherResults_CompletionOrder == [i \in Tasks |-> task[doneOrder[i]].result]

\* gather returns the tasks' results in the order the tasks were passed.
GatherResults == [i \in Tasks |-> task[i].result]

\* Lines 310-315.
SuccessfulCount(results) ==
    Cardinality({i \in DOMAIN results :
        IsDict(results[i]) /\ "error" \notin DOMAIN results[i]})

FailedCount_DictsOnly(results) ==
    Cardinality({i \in DOMAIN results :
        IsDict(results[i]) /\ "error" \in DOMAIN results[i]})

FailedCount(results) ==
    Cardinality({i \in DOMAIN results :
        \/ IsDict(results[i]) /\ "error" \in DOMAIN results[i]
        \/ IsException(results[i])})

ResultItems(results) ==
    [i \in DOMAIN results |->
        IF IsDict(results[i]) THEN results[i]
        ELSE [error |-> Str(results[i], bargs.urls[i])]]

BatchResult(results) ==
    [total_urls |-> Len(bargs.urls),
     successful |-> SuccessfulCount(results),
     failed |-> FailedCount(results),
     results |-> ResultItems(results)]

\* fetch_multiple_pages up to `await asyncio.gather(...)`, lines 290-308.
CallBatch(args) ==
    /\ bpc = "idle"
    /\ bpc' = "gathering"
    /\ bargs' = args
    /\ semValue' = Get(args, "max_concurrent", DefaultMaxConcurrent)
    /\ waiters' = <<>>
    /\ task' = [i \in 1..Len(args.urls) |-> NewTask]
    /\ UNCHANGED <<sessVars, op, doneOrder, bresult>>
    /\ UNCHANGED <<srv, bodyVars>>

\* Task i leaves fetch_single with r (a dict, or an exception), having got
\* resp from the network (None if it issued no GET), and releases its slot.
EndTask(i, resp, r, value, ws) ==
    LET rel == SemRelease(value, ws)
        propagates == IsException(r) /\ ~ReturnExceptions
    IN  /\ semValue' = rel.value
        /\ waiters' = rel.waiters
        /\ task' = [j \in Tasks |->
                IF j = i
                    THEN [task[i] EXCEPT !.pc = "done", !.attempts = 1,
                                         !.resp = resp, !.result = r]
                ELSE IF j = rel.woken THEN [task[j] EXCEPT !.pc = "granted"]
                ELSE task[j]]
        /\ doneOrder' = Append(doneOrder, i)
        /\ bpc' = IF propagates THEN "raised" ELSE bpc
        /\ bresult' = IF propagates THEN r ELSE bresult
        /\ UNCHANGED bargs

\* Task i holds a slot and runs _fetch_webpage to the suspension point of its
\* GET; an exception of _get_session leaves fetch_single at once.
EnterFetch(i, fails, value, ws) ==
    LET b == FetchWebpageBegin(ItemArgs(i), fails)
    IN  /\ SetSession(b)
        /\ IF b.raised
              THEN EndTask(i, None, SessionError, value, ws)
              ELSE /\ task' = [task EXCEPT ![i].pc = "fetching",
                                           ![i].attempts = 1,
                                           ![i].used = b.used,
                                           ![i].sess = b.sess]
                   /\ semValue' = value
                   /\ waiters' = ws
                   /\ UNCHANGED <<bpc, bargs, doneOrder, bresult>>

\* gather schedules the first step of every task before fetch_multiple_pages
\* suspends, and the event loop runs its ready queue in order: the tasks take
\* their first step in the order of the urls list, before any woken task runs
\* again and before any GET ends.
AllStarted == \A j \in Tasks : task[j].pc # "new"

\* First run of task i.
TaskStart(i, fails) ==
    /\ bpc = "gathering"
    /\ i \in Tasks
    /\ task[i].pc = "new"
    /\ \A j \in 1..(i - 1) : task[j].pc # "new"
    /\ IF Locked
          THEN /\ task' = [task EXCEPT ![i].pc = "waiting"]
               /\ waiters' = Append(waiters, i)
               /\ UNCHANGED <<sessVars, bpc, bargs, semValue, doneOrder, bresult>>
          ELSE EnterFetch(i, fails, semValue - 1, waiters)
    /\ UNCHANGED op
    /\ UNCHANGED <<srv, bodyVars>>

\* A woken task runs again, owning the slot release() took for it.  Woken
\* tasks are put on the event loop's ready queue as they are woken, which is
\* the order of the wait queue and so of the urls list, and run in that order.
TaskResume(i, fails) ==
    /\ bpc = "gathering"
    /\ i \in Tasks
    /\ task[i].pc = "granted"
    /\ \A j \in 1..(i - 1) : task[j].pc # "granted"
    /\ AllStarted
    /\ EnterFetch(i, fails, semValue, waiters)
    /\ UNCHANGED op
    /\ UNCHANGED <<srv, bodyVars>>

\* The GET of task i ends; _fetch_webpage returns its dict and the slot is
\* released.
TaskComplete(i, resp) ==
    /\ bpc = "gathering"
    /\ i \in Tasks
    /\ task[i].pc = "fetching"
    /\ AllStarted
    /\ EndTask(i, resp, FetchWebpageEnd(ItemArgs(i), resp), semValue, waiters)
    /\ UNCHANGED <<sessVars, op>>
    /\ UNCHANGED <<srv, bodyVars>>

\* gather returns once every task is done; lines 310-315.
BatchReturn ==
    /\ bpc = "gathering"
    /\ \A i \in Tasks : task[i].pc = "done"
    /\ bpc' = "returned"
    /\ bresult' = BatchResult(GatherResults)
    /\ UNCHANGED <<sessVars, op, bargs, semValue, waiters, task, doneOrder>>
    /\ UNCHANGED <<srv, bodyVars>>

----------------------------------------------------------------------------
(* The specification *)

Init ==
    /\ session = NoSession
    /\ opened = {}
    /\ closed = {}
    /\ sessTimeout = SessionDefaultTimeout
    /\ cleanups = 0
    /\ op = [o \in 1..MaxOps |-> IdleOp]
    /\ bpc = "idle"
    /\ bargs = None
    /\ semValue = 0
    /\ waiters = <<>>
    /\ task = <<>>
    /\ doneOrder = <<>>
    /\ bresult = None
    /\ srv = NoServer
    /\ doc = <<>>
    /\ page = None
    /\ links = None
    /\ search = None
    /\ reply = <<>>

BatchNext ==
    \/ \E args \in BatchArgsSet : CallBatch(args)
    \/ \E i \in 1..MaxUrls, fails \in BOOLEAN : TaskStart(i, fails)
    \/ \E i \in 1..MaxUrls, fails \in BOOLEAN : TaskResume(i, fails)
    \/ \E i \in 1..MaxUrls, resp \in Responses : TaskComplete(i, resp)
    \/ BatchReturn

BatchSpec == Init /\ [][BatchNext]_vars

OpsNext ==
    \/ \E o \in 1..MaxOps, kind \in OpKinds, fails \in BOOLEAN :
          \E args \in ArgsOf(kind) : CallOp(o, kind, args, fails)
    \/ \E o \in 1..MaxOps, resp \in Responses : CompleteOp(o, resp)
    \/ Cleanup

OpsSpec == Init /\ [][OpsNext]_vars

\* The batch alone under the scheduling the event loop guarantees: it never
\* idles while a task is ready to run, and every GET ends (with a response, an
\* error, or at the latest when its timeout expires), so a batch does not stop
\* while one of its steps is possible.  One answer of each way a fetch ends
\* (success, failure, timeout) is enough to decide admission.
EndResponses ==
    {r \in Responses : r.type = "timeout" \/ r.code = 200 \/ r.code = 404}

FairBatchNext ==
    \/ \E args \in {a \in BatchArgsSet : "timeout" \notin DOMAIN a} :
          CallBatch(args)
    \/ \E i \in 1..MaxUrls, fails \in BOOLEAN : TaskStart(i, fails)
    \/ \E i \in 1..MaxUrls, fails \in BOOLEAN : TaskResume(i, fails)
    \/ \E i \in 1..MaxUrls, resp \in EndResponses : TaskComplete(i, resp)
    \/ BatchReturn

FairBatchSpec == Init /\ [][FairBatchNext]_vars /\ WF_vars(FairBatchNext)

----------------------------------------------------------------------------
(* Properties of fetch_multiple_pages *)

MaxConcurrentOf == Get(bargs, "max_concurrent", DefaultMaxConcurrent)

\* Tasks that own a slot: woken with a slot taken for them, or inside
\* _fetch_webpage.
Admitted == {i \in Tasks : task[i].pc \in {"granted", "fetching"}}
InFlight == {i \in Tasks : task[i].pc = "fetching"}

IsFailure(r) == "error" \in DOMAIN r
IsSuccess(r) == IsDict(r) /\ ~IsFailure(r)

\* Whether the GET answered by resp ends in an exception.
FailingResponse(resp) ==
    resp.type # "status" \/ RaisesForStatus(resp.code)

\* Position of task i in the completion order.
DonePos(i) == CHOOSE p \in DOMAIN doneOrder : doneOrder[p] = i

\* C1: with max_concurrent = k >= 1, at most k single-page pipelines are
\* admitted and unfinished in every reachable state, and a URL that found no
\* free slot waits without its pipeline having been started.
C1_AdmissionCeiling ==
    (bpc = "gathering" /\ MaxConcurrentOf >= 1) =>
        /\ Cardinality(Admitted) <= MaxConcurrentOf
        /\ semValue >= 0
        /\ semValue + Cardinality(Admitted) = MaxConcurrentOf
        /\ \A i \in Tasks :
              task[i].pc \in {"waiting", "granted"} =>
                  task[i].attempts = 0 /\ task[i].used = 0
        /\ \A i \in Tasks : task[i].pc = "waiting" => semValue = 0

C1_Witness ==
    /\ bpc = "gathering"
    /\ MaxConcurrentOf >= 1
    /\ Cardinality(InFlight) = MaxConcurrentOf
    /\ \E i \in Tasks : task[i].pc = "waiting"

\* C2: the results list has the length of urls, and results[i] is the outcome
\* of the fetch of urls[i], whatever the completion order.
C2_InputOrder ==
    bpc = "returned" =>
        /\ DOMAIN bresult.results = 1..Len(bargs.urls)
        /\ \A i \in 1..Len(bargs.urls) :
              LET r == bresult.results[i]
              IN  /\ "url" \in DOMAIN r => r.url = bargs.urls[i]
                  /\ task[i].resp # None =>
                        /\ "url" \in DOMAIN r
                        /\ IsFailure(r) <=> FailingResponse(task[i].resp)
                        /\ IsSuccess(r) => r.status_code = task[i].resp.code
                  /\ task[i].resp = None => IsFailure(r)

\* A batch whose fetches finished in another order than the input order and
\* with different outcomes.
C2_Witness ==
    /\ bpc = "returned"
    /\ Len(bargs.urls) >= 2
    /\ \E i, j \in Tasks :
          /\ i < j
          /\ DonePos(j) < DonePos(i)
          /\ bresult.results[i] # bresult.results[j]
          /\ IsSuccess(bresult.results[i])
          /\ IsFailure(bresult.results[j])

\* C3: every position of urls is fetched exactly once, and a failure of one
\* fetch (an error dict, a timeout, or an exception leaving the task) never
\* leaves gather: every sibling runs to the outcome of its own fetch.
C3_EveryUrlOnce ==
    /\ bpc # "raised"
    /\ \A i \in Tasks :
          /\ task[i].attempts <= 1
          /\ task[i].attempts = 1 <=> task[i].pc \in {"fetching", "done"}
    /\ bpc = "returned" =>
          \A i \in 1..Len(bargs.urls) :
              /\ i \in Tasks
              /\ task[i].pc = "done"
              /\ task[i].attempts = 1
              /\ IF task[i].resp = None
                    THEN IsException(task[i].result)
                    ELSE /\ IsDict(task[i].result)
                         /\ task[i].result.url = bargs.urls[i]
                         /\ IsFailure(task[i].result)
                                <=> FailingResponse(task[i].resp)

\* A fetch timed out or raised while a sibling was still to finish, and the
\* sibling, a duplicate of an earlier URL included, succeeded afterwards.
C3_Witness ==
    /\ bpc = "returned"
    /\ \E i, j \in Tasks :
          /\ i # j
          /\ DonePos(i) < DonePos(j)
          /\ \/ IsException(task[i].result)
             \/ task[i].resp # None /\ task[i].resp.type = "timeout"
          /\ IsSuccess(task[j].result)
    /\ \E i, j \in Tasks : i # j /\ bargs.urls[i] = bargs.urls[j]

\* C4: total_urls is the number of input URLs, successful the number of
\* result items without an error, failed the number of result items with an
\* error, and they add up; [u1, u2, u3] with only u2 failing gives 2 and 1.
C4_AggregateCounts ==
    bpc = "returned" =>
        LET items == bresult.results
            ok == {i \in DOMAIN items : ~IsFailure(items[i])}
            bad == {i \in DOMAIN items : IsFailure(items[i])}
        IN  /\ bresult.total_urls = Len(bargs.urls)
            /\ bresult.successful = Cardinality(ok)
            /\ bresult.failed = Cardinality(bad)
            /\ bresult.successful + bresult.failed = bresult.total_urls
            /\ (Len(bargs.urls) = 3 /\ bad = {2}) =>
                  bresult.successful = 2 /\ bresult.failed = 1

\* [u1, u2, u3] with max_concurrent = 1 and only u2 failing.
C4_Witness ==
    /\ bpc = "returned"
    /\ bargs.urls = <<"u1", "u2", "u3">>
    /\ MaxConcurrentOf = 1
    /\ {i \in Tasks : IsFailure(bresult.results[i])} = {2}
    /\ bresult.successful = 2
    /\ bresult.failed = 1

\* C5: when an admitted fetch ends (response, error or timeout) its slot is
\* released in the same step, to the first waiting URL if there is one, and a
\* URL that was given the slot is eventually admitted.
C5_SlotReleased ==
    /\ [][\A i \in 1..MaxUrls :
            (i \in Tasks /\ task[i].pc = "fetching" /\ task'[i].pc = "done") =>
                IF waiters = <<>>
                    THEN semValue' = semValue + 1
                    ELSE /\ semValue' = semValue
                         /\ task'[Head(waiters)].pc = "granted"
                         /\ waiters' = Tail(waiters)]_vars
    /\ \A i \in 1..MaxUrls :
          (i \in Tasks /\ task[i].pc = "granted")
              ~> (i \in Tasks /\ task[i].pc \in {"fetching", "done"})

\* A fetch timed out and the URL that was waiting holds its slot now.
C5_Witness ==
    \E i, j \in Tasks :
        /\ task[i].pc = "done"
        /\ task[i].resp # None
        /\ task[i].resp.type = "timeout"
        /\ doneOrder[Len(doneOrder)] = i
        /\ task[j].pc = "granted"

----------------------------------------------------------------------------
(* Properties of the single-page operations and the shared session *)

Called == {o \in 1..MaxOps : op[o].pc # "idle"}
IssuedGet == {o \in 1..MaxOps : op[o].pc \in {"inflight", "returned"}}
Returned == {o \in 1..MaxOps : op[o].pc = "returned"}

\* The timeout a call asks for: its timeout argument, otherwise 30.
OwnTimeout(o) == Get(op[o].args, "timeout", FetchDefaultTimeout)

\* C6: every GET runs under the timeout of its own call (the caller's value,
\* otherwise 30), whatever timeouts other calls on the shared session used.
C6_OwnTimeout ==
    \A o \in IssuedGet : op[o].used = OwnTimeout(o)

\* C7: a response with a status outside 200..299 gives a failure of kind
\* http_status whose message contains the status code.
C7_HttpStatusFailure ==
    \A o \in Returned :
        (op[o].resp.type = "status" /\ op[o].resp.code \notin 200..299) =>
            /\ IsFailure(op[o].result)
            /\ "kind" \in DOMAIN op[o].result
            /\ op[o].result.kind = "http_status"
            /\ \E p \in DOMAIN op[o].result.error :
                  op[o].result.error[p] = ToString(op[o].resp.code)

\* C8: a failure value carries the kind of its cause: timeout for a deadline
\* that passed, network for a connection failure.
C8_FailureKind ==
    \A o \in Returned :
        op[o].resp.type \in {"timeout", "network"} =>
            /\ IsFailure(op[o].result)
            /\ "kind" \in DOMAIN op[o].result
            /\ op[o].result.kind = op[o].resp.type

\* C9: fetch_webpage, extract_links and get_page_metadata, called with a url,
\* never raise: every failure, one of session acquisition included, is
\* returned as {url|source_url, error, status: "failed"}.
C9_NeverRaises ==
    \A o \in Called :
        op[o].kind \in {"fetch_webpage", "extract_links", "get_page_metadata"} =>
            /\ op[o].pc # "raised"
            /\ (op[o].pc = "returned" /\ FailingResponse(op[o].resp)) =>
                  /\ IsFailure(op[o].result)
                  /\ op[o].result.status = "failed"

\* C10: no session exists before the first operation; afterwards at most one
\* session is open, it is the one self.session refers to, every operation that
\* issued a GET on a session still open uses that one, and a session is
\* constructed only when there is none or the existing one is closed.
C10_OneSession ==
    /\ [](/\ Called = {} => session = NoSession /\ opened = {}
          /\ Cardinality(opened \ closed) <= 1
          /\ opened \ closed \subseteq {session}
          /\ \A o \in IssuedGet :
                /\ op[o].sess \in opened
                /\ op[o].sess \notin closed => op[o].sess = session)
    /\ [][opened' # opened =>
            /\ session = NoSession \/ session \in closed
            /\ Cardinality(opened') = Cardinality(opened) + 1]_vars

\* Two operations are in flight on the one session the first of them created.
C10_Witness ==
    \E o1, o2 \in 1..MaxOps :
        /\ o1 # o2
        /\ op[o1].pc = "inflight"
        /\ op[o2].pc = "inflight"
        /\ op[o1].sess = op[o2].sess
        /\ op[o1].sess = session
        /\ opened = {session}
        /\ closed = {}

----------------------------------------------------------------------------
(* The server processes: main.py main() and http_server.py main() *)

ServerKinds == {"stdio", "http"}

\* How the run loop of a server ends.
ExitPaths == {"return", "interrupt", "error"}

\* A server process constructs its WebFetchMCP and enters its run loop.
StartServer(kind) ==
    /\ srv = NoServer
    /\ srv' = [kind |-> kind, pc |-> "running", how |-> "none"]
    /\ UNCHANGED <<sessVars, op, batchVars, bodyVars>>

\* main.py, lines 545-552: whichever way run() ends, the finally clause awaits
\* cleanup() before the process exits.
ExitStdio(how) ==
    /\ srv.kind = "stdio"
    /\ srv.pc = "running"
    /\ closed' = ClosedAfterCleanup
    /\ srv' = [srv EXCEPT !.pc = "exited", !.how = how]
    /\ UNCHANGED <<session, opened, sessTimeout, cleanups, op, batchVars,
                   bodyVars>>

\* http_server.py, lines 211-236: uvicorn.run returns or raises and main()
\* ends; shutdown() (lines 206-209) is registered nowhere and nothing calls it.
ExitHttp(how) ==
    /\ srv.kind = "http"
    /\ srv.pc = "running"
    /\ srv' = [srv EXCEPT !.pc = "exited", !.how = how]
    /\ UNCHANGED <<sessVars, op, batchVars, bodyVars>>

ServerNext ==
    \/ \E kind \in ServerKinds : StartServer(kind)
    \/ /\ srv.pc = "running"
       /\ \E o \in 1..MaxOps, kind \in OpKinds, fails \in BOOLEAN :
             \E args \in ArgsOf(kind) : CallOp(o, kind, args, fails)
    \/ /\ srv.pc = "running"
       /\ \E o \in 1..MaxOps, resp \in Responses : CompleteOp(o, resp)
    \/ \E how \in ExitPaths : ExitStdio(how)
    \/ \E how \in ExitPaths : ExitHttp(how)

ServerSpec == Init /\ [][ServerNext]_vars

\* C11: when a server process that owns a WebFetchMCP has shut down, by
\* normal return, interrupt or error of its run loop, no session is open.
C11_SessionClosedOnExit ==
    srv.pc = "exited" => opened \ closed = {}

----------------------------------------------------------------------------
(* The body of a 2xx response and what _fetch_webpage and _get_page_metadata
   compute from it.  A document is a sequence of elements, each with a tag and
   its text, a text being a sequence of characters. *)

MaxNodes == 2
MaxChars == 4

Tags == {"p", "script", "style"}
TextChars == {"H", "W", " ", "\n"}

\* The text carried by a script or style element.
CodeText == <<"x">>

OpenTag(tag) ==
    CASE tag = "p" -> <<"<", "p", ">">>
      [] tag = "script" -> <<"<", "s", "c", "r", "i", "p", "t", ">">>
      [] tag = "style" -> <<"<", "s", "t", "y", "l", "e", ">">>

CloseTag(tag) == <<"<", "/">> \o Tail(OpenTag(tag))

\* html_content = await response.text(): the body as the server sent it.
RECURSIVE HtmlContent(_)
HtmlContent(d) ==
    IF d = <<>> THEN <<>>
    ELSE OpenTag(Head(d).tag) \o Head(d).text \o CloseTag(Head(d).tag)
            \o HtmlContent(Tail(d))

\* for script in soup(["script", "style"]): script.extract()
WithoutCode_Nothing(d) == d

WithoutCode(d) == SelectSeq(d, LAMBDA n : n.tag \notin {"script", "style"})

\* soup.get_text(): the strings of the tree, concatenated with no separator.
RECURSIVE GetText(_)
GetText(d) ==
    IF d = <<>> THEN <<>> ELSE Head(d).text \o GetText(Tail(d))

\* What str.strip() removes and where str.splitlines() breaks, over TextChars.
IsWhitespace(c) == c \in {" ", "\n"}
IsLineBoundary(c) == c = "\n"

\* str.splitlines(): no line for an empty string, none after a final boundary.
RECURSIVE SplitLines(_)
SplitLines(s) ==
    IF s = <<>> THEN <<>>
    ELSE LET bs == {i \in 1..Len(s) : IsLineBoundary(s[i])}
         IN  IF bs = {} THEN <<s>>
             ELSE LET i == CHOOSE j \in bs : \A k \in bs : j <= k
                  IN  <<SubSeq(s, 1, i - 1)>>
                          \o SplitLines(SubSeq(s, i + 1, Len(s)))

\* str.strip()
RECURSIVE Strip(_)
Strip(s) ==
    IF s = <<>> THEN s
    ELSE IF IsWhitespace(s[1]) THEN Strip(Tail(s))
    ELSE IF IsWhitespace(s[Len(s)]) THEN Strip(SubSeq(s, 1, Len(s) - 1))
    ELSE s

\* str.split("  "): cut at each pair of spaces, leftmost first; always at
\* least one piece.
RECURSIVE SplitDoubleSpace(_)
SplitDoubleSpace(s) ==
    LET ps == {i \in 1..(Len(s) - 1) : s[i] = " " /\ s[i + 1] = " "}
    IN  IF ps = {} THEN <<s>>
        ELSE LET i == CHOOSE j \in ps : \A k \in ps : j <= k
             IN  <<SubSeq(s, 1, i - 1)>>
                     \o SplitDoubleSpace(SubSeq(s, i + 2, Len(s)))

\* chunks = (phrase.strip() for line in lines for phrase in line.split("  "))
\* with lines = (line.strip() for line in text.splitlines())
RECURSIVE StripAll(_)
StripAll(ss) ==
    IF ss = <<>> THEN <<>> ELSE <<Strip(Head(ss))>> \o StripAll(Tail(ss))

RECURSIVE Chunks(_)
Chunks(lines) ==
    IF lines = <<>> THEN <<>>
    ELSE StripAll(SplitDoubleSpace(Strip(Head(lines)))) \o Chunks(Tail(lines))

\* (chunk for chunk in chunks if chunk)
Surviving_All(chunks) == chunks

Surviving(chunks) == SelectSeq(chunks, LAMBDA chunk : chunk # <<>>)

\* '\n'.join(...)
RECURSIVE JoinLines(_)
JoinLines(ss) ==
    IF ss = <<>> THEN <<>>
    ELSE IF Len(ss) = 1 THEN Head(ss)
    ELSE Head(ss) \o <<"\n">> \o JoinLines(Tail(ss))

\* _fetch_webpage, lines 261-274: the BeautifulSoup fallback.
Fallback(d) ==
    JoinLines(Surviving(Chunks(SplitLines(GetText(WithoutCode(d))))))

\* What trafilatura.extract may return: None, an empty or a non-empty string
\* (a string s is the record [text |-> s]).
PrimaryResults == {None, [text |-> <<>>], [text |-> <<"T">>]}

\* `if extracted:`
Truthy_NotNone(extracted) == extracted # None

Truthy(extracted) == extracted # None /\ extracted.text # <<>>

\* len(html_content), whatever text the result goes on to carry.
ContentLength_OfCarried(html_content, carried) == Len(carried)

ContentLength(html_content, carried) == Len(html_content)

\* The `if name == ... elif property_name == ...` chain of lines 477-504 for
\* one meta tag, over the names and properties the documents use: the key it
\* assigns, "" for none.
MetaKey(meta) ==
    LET name == IF Get(meta, "name", "") = "Description" THEN "description"
                ELSE Get(meta, "name", "")
        property_name == Get(meta, "property", "")
    IN  IF name = "description" THEN "description"
        ELSE IF name = "keywords" THEN "keywords"
        ELSE IF property_name = "og:title" THEN "og_title"
        ELSE ""

\* for meta in soup.find_all('meta'): metadata[key] = content
RECURSIVE MetaLoop(_, _)
MetaLoop(d, metadata) ==
    IF d = <<>> THEN metadata
    ELSE LET meta == Head(d)
         IN  IF meta.tag = "meta" /\ MetaKey(meta) # ""
                 THEN MetaLoop(Tail(d),
                               (MetaKey(meta) :> Get(meta, "content", ""))
                                   @@ metadata)
                 ELSE MetaLoop(Tail(d), metadata)

\* soup.find(tag): the first element of that tag, None if there is none.
Find1(d, tag) ==
    LET is == {i \in 1..Len(d) : d[i].tag = tag}
    IN  IF is = {} THEN None
        ELSE d[CHOOSE i \in is : \A j \in is : i <= j]

\* _extract_metadata(html_content, url), lines 464-516; d is the tree
\* BeautifulSoup makes of html_content, which holds no <title> here.
ExtractMetadata(d, url) ==
    LET canonical == Find1(d, "link")
        html_tag == Find1(d, "html")
    IN  MetaLoop(d, [title |-> ""])
            @@ (IF canonical # None
                   THEN [canonical_url |-> Get(canonical, "href", "")]
                   ELSE <<>>)
            @@ (IF html_tag # None
                   THEN [language |-> Get(html_tag, "lang", "")]
                   ELSE <<>>)

\* _fetch_webpage, lines 255-276, and the extractors that ran.
ContentFields(d, args, extracted) ==
    IF Get(args, "extract_content", TRUE)
        THEN IF Truthy(extracted)
            THEN [fields |-> [content |-> extracted.text], ran |-> {"primary"}]
            ELSE [fields |-> [content |-> Fallback(d)],
                  ran |-> {"primary", "fallback"}]
        ELSE [fields |-> [raw_html |-> HtmlContent(d)], ran |-> {}]

Carried(fields) ==
    IF "content" \in DOMAIN fields THEN fields.content ELSE fields.raw_html

\* _fetch_webpage, lines 240-286, from the response to the returned dict.
FetchWebpageResult(d, args, resp, extracted) ==
    LET end == FetchWebpageEnd(args, resp)
        c == ContentFields(d, args, extracted)
    IN  IF "error" \in DOMAIN end THEN end
        ELSE end @@ c.fields
                 @@ [content_length |->
                         ContentLength(HtmlContent(d), Carried(c.fields))]
                 @@ (IF Get(args, "include_metadata", TRUE)
                        THEN [metadata |->
                                 ExtractMetadata(d, args.url)]
                        ELSE <<>>)

\* _get_page_metadata, lines 443-462.
GetPageMetadataResult(d, args, resp) ==
    LET end == GetPageMetadataEnd(args, resp)
    IN  IF "error" \in DOMAIN end THEN end
        ELSE end @@ ExtractMetadata(d, args.url)
                 @@ [content_length |->
                         ContentLength(HtmlContent(d), HtmlContent(d))]

\* The args of the calls whose body handling is followed.
PageArgs ==
    {[url |-> "u1"], [url |-> "u1", extract_content |-> FALSE],
     [url |-> "u1", include_metadata |-> FALSE],
     [url |-> "u1", extract_content |-> FALSE, include_metadata |-> FALSE]}

PageResponses == {[type |-> "status", code |-> c] : c \in {200, 404}}

\* The characters the paragraphs of the body hold so far.
CharCount(d) == Len(GetText(SelectSeq(d, LAMBDA n : n.tag = "p")))

\* The server's body grows by an element ...
AddNode(tag) ==
    /\ page = None
    /\ Len(doc) < MaxNodes
    /\ doc' = Append(doc, [tag |-> tag,
                           text |-> IF tag = "p" THEN <<>> ELSE CodeText])
    /\ UNCHANGED <<srv, reply, sessVars, op, batchVars, page, links, search>>

\* ... or by a character of its last paragraph.
AddChar(c) ==
    /\ page = None
    /\ doc # <<>>
    /\ doc[Len(doc)].tag = "p"
    /\ CharCount(doc) < MaxChars
    /\ doc' = [doc EXCEPT ![Len(doc)].text = Append(@, c)]
    /\ UNCHANGED <<srv, reply, sessVars, op, batchVars, page, links, search>>

FetchWebpageBody(args, resp, extracted) ==
    /\ page = None
    /\ page' = [kind |-> "fetch_webpage", args |-> args,
                extracted |-> IF Get(args, "extract_content", TRUE)
                                     /\ ~FailingResponse(resp)
                                 THEN extracted ELSE None,
                ran |-> IF FailingResponse(resp) THEN {}
                        ELSE ContentFields(doc, args, extracted).ran,
                result |-> FetchWebpageResult(doc, args, resp, extracted)]
    /\ UNCHANGED <<srv, reply, sessVars, op, batchVars, doc, links, search>>

GetPageMetadataBody(resp) ==
    /\ page = None
    /\ page' = [kind |-> "get_page_metadata", args |-> [url |-> "u1"],
                extracted |-> None, ran |-> {},
                result |-> GetPageMetadataResult(doc, [url |-> "u1"], resp)]
    /\ UNCHANGED <<srv, reply, sessVars, op, batchVars, doc, links, search>>

PageNext ==
    \/ \E tag \in Tags : AddNode(tag)
    \/ \E c \in TextChars : AddChar(c)
    \/ \E args \in PageArgs, resp \in PageResponses,
          extracted \in PrimaryResults :
            FetchWebpageBody(args, resp, extracted)
    \/ \E resp \in PageResponses : GetPageMetadataBody(resp)

PageSpec == Init /\ [][PageNext]_vars

----------------------------------------------------------------------------
(* Claims about the body handling *)

PageReturned == page # None
PageSucceeded == PageReturned /\ "error" \notin DOMAIN page.result
FetchSucceeded == PageSucceeded /\ page.kind = "fetch_webpage"
FallbackRan == PageReturned /\ "fallback" \in page.ran

\* C12: every successful fetch_webpage result, whatever extract_content and
\* include_metadata are, and every successful get_page_metadata result reports
\* as content_length the length of the raw body, not of the extracted content.
C12_ContentLengthIsRawBody ==
    PageSucceeded => page.result.content_length = Len(HtmlContent(doc))

\* A fetch whose extracted content is shorter than the body it came from.
C12_Witness ==
    /\ FetchSucceeded
    /\ "content" \in DOMAIN page.result
    /\ Len(page.result.content) < Len(HtmlContent(doc))
    /\ page.result.content_length = Len(HtmlContent(doc))

\* C13: with extract_content set the fallback extractor runs iff the primary
\* extractor returned None or an empty string; a non-empty primary result is
\* the content, otherwise the fallback result is; with extract_content unset
\* no extractor runs and the result carries raw_html and no content.
C13_FallbackIffPrimaryEmpty ==
    FetchSucceeded =>
        LET on == Get(page.args, "extract_content", TRUE)
            empty == page.extracted = None \/ page.extracted.text = <<>>
            r == page.result
        IN  /\ ("fallback" \in page.ran) <=> (on /\ empty)
            /\ ("primary" \in page.ran) <=> on
            /\ on /\ ~empty =>
                  /\ "raw_html" \notin DOMAIN r
                  /\ r.content = page.extracted.text
            /\ on /\ empty =>
                  /\ "raw_html" \notin DOMAIN r
                  /\ r.content = Fallback(doc)
            /\ ~on =>
                  /\ "content" \notin DOMAIN r
                  /\ r.raw_html = HtmlContent(doc)

\* The primary extractor returned an empty string, not None, and the fallback
\* found text.
C13_Witness ==
    /\ FetchSucceeded
    /\ page.extracted = [text |-> <<>>]
    /\ "fallback" \in page.ran
    /\ page.result.content # <<>>

\* <script>x</script><p>H  W</p>: a script, then two words two spaces apart.
HelloWorldDoc ==
    <<[tag |-> "script", text |-> CodeText],
      [tag |-> "p", text |-> <<"H", " ", " ", "W">>]>>

\* C14 as stated: the fallback output for the script-and-two-words document is
\* the two words with one space between them.
C14_DoubleSpaceCollapsed ==
    FallbackRan /\ doc = HelloWorldDoc =>
        page.result.content = <<"H", " ", "W">>

\* C14 amended: the fallback output for that document is the two words with a
\* newline between them; the script text is removed and the double space
\* separates two fragments.
C14_DoubleSpaceSplits ==
    FallbackRan /\ doc = HelloWorldDoc =>
        page.result.content = <<"H", "\n", "W">>

C14_Witness ==
    /\ FallbackRan
    /\ doc = HelloWorldDoc
    /\ page.extracted = None

\* The characters of s that are not whitespace, in order.
Ink(s) == SelectSeq(s, LAMBDA c : c \notin {" ", "\n"})

\* The text of the paragraphs of d, in document order.
RECURSIVE ParagraphText(_)
ParagraphText(d) ==
    IF d = <<>> THEN <<>>
    ELSE (IF Head(d).tag = "p" THEN Head(d).text ELSE <<>>)
            \o ParagraphText(Tail(d))

\* C15: the fallback output is the surviving fragments in document order
\* joined by single newlines: it keeps the non-blank characters of the text
\* outside script and style in order and nothing of script or style, it
\* neither starts nor ends with whitespace, no two whitespace characters are
\* adjacent in it (so no fragment is empty, untrimmed or holds two spaces in a
\* row), and with nothing surviving it is the empty string of a success.
C15_FallbackFragments ==
    FallbackRan =>
        LET out == page.result.content
        IN  /\ "error" \notin DOMAIN page.result
            /\ Ink(out) = Ink(ParagraphText(doc))
            /\ out # <<>> => out[1] \notin {" ", "\n"}
                                /\ out[Len(out)] \notin {" ", "\n"}
            /\ \A i \in 1..(Len(out) - 1) :
                  ~(out[i] \in {" ", "\n"} /\ out[i + 1] \in {" ", "\n"})
            /\ Ink(ParagraphText(doc)) = <<>> => out = <<>>

\* A document with a style element and a paragraph holding a blank line and a
\* trailing space, of which two fragments survive.
C15_Witness ==
    /\ FallbackRan
    /\ \E i \in 1..Len(doc) : doc[i].tag = "style"
    /\ \E i \in 1..Len(doc) :
          /\ doc[i].tag = "p"
          /\ \E j \in 1..(Len(doc[i].text) - 1) :
                doc[i].text[j] = "\n" /\ doc[i].text[j + 1] = "\n"
    /\ page.result.content = <<"H", "\n", "W">>

----------------------------------------------------------------------------
(* _extract_links: the anchors of a 2xx body and the link records made of
   them.  A URL or href string is kept as urlparse splits it. *)

MaxAnchors == 3

Url(scheme, netloc, path, fragment) ==
    [scheme |-> scheme, netloc |-> netloc, path |-> path,
     fragment |-> fragment]

\* The pages asked for: https://a.com/p and https://b.com/p.
LinkUrls == {Url("https", "a.com", "/p", ""), Url("https", "b.com", "/p", "")}

\* href values: /x, https://a.com/x, https://b.com/y, #frag, /x#frag, mailto:m
Hrefs ==
    {Url("", "", "/x", ""), Url("https", "a.com", "/x", ""),
     Url("https", "b.com", "/y", ""), Url("", "", "", "frag"),
     Url("", "", "/x", "frag"), Url("mailto", "", "m", "")}

\* An <a> element, with or without an href attribute.
Anchors == {[tag |-> "a"]} \cup {[tag |-> "a", href |-> h] : h \in Hrefs}

\* soup.find_all('a', href=True)
HasHref(n) == "href" \in DOMAIN n

\* href.startswith('#'): nothing stands before the fragment.
StartsWithHash(href) ==
    href.scheme = "" /\ href.netloc = "" /\ href.path = ""
        /\ href.fragment # ""

\* urllib.parse.uses_relative, as far as the schemes above go.
UsesRelative == {"", "http", "https"}

\* urljoin(url, href) for a non-empty href whose path is empty or absolute.
Urljoin(base, href) ==
    LET scheme == IF href.scheme = "" THEN base.scheme ELSE href.scheme
    IN  IF scheme # base.scheme \/ scheme \notin UsesRelative THEN href
        ELSE IF href.netloc # "" THEN [href EXCEPT !.scheme = scheme]
        ELSE Url(scheme, base.netloc,
                 IF href.path = "" THEN base.path ELSE href.path,
                 href.fragment)

\* urlparse(u).netloc
Netloc(u) == u.netloc

\* if href.startswith('#') and not include_anchors: continue
SkipsAnchor_AnyFragment(href, include_anchors) ==
    href.fragment # "" /\ ~include_anchors

SkipsAnchor(href, include_anchors) ==
    StartsWithHash(href) /\ ~include_anchors

IsInternal(link_domain, base_domain) == link_domain = base_domain

IsExternal_NotInternal(link_domain, base_domain) ==
    link_domain # base_domain

IsExternal(link_domain, base_domain) ==
    link_domain # base_domain /\ link_domain # ""

\* The two `continue`s of lines 406-409, negated.
PassesFilters_Either(filter_internal, filter_external, is_internal, is_external) ==
    (filter_internal \/ filter_external) =>
        \/ filter_internal /\ is_internal
        \/ filter_external /\ is_external

PassesFilters(filter_internal, filter_external, is_internal, is_external) ==
    /\ filter_internal => is_internal
    /\ filter_external => is_external

\* The loop of lines 391-419 over the elements of the body.
RECURSIVE LinkInfos(_, _, _, _, _)
LinkInfos(d, url, include_anchors, filter_internal, filter_external) ==
    IF d = <<>> THEN <<>>
    ELSE LET rest == LinkInfos(Tail(d), url, include_anchors,
                               filter_internal, filter_external)
             link == Head(d)
         IN  IF ~HasHref(link) \/ SkipsAnchor(link.href, include_anchors)
                 THEN rest
             ELSE LET absolute_url == Urljoin(url, link.href)
                      link_domain == Netloc(absolute_url)
                      base_domain == Netloc(url)
                      is_internal == IsInternal(link_domain, base_domain)
                      is_external == IsExternal(link_domain, base_domain)
                  IN  IF PassesFilters(filter_internal, filter_external,
                                       is_internal, is_external)
                          THEN <<[url |-> absolute_url,
                                  is_internal |-> is_internal,
                                  is_external |-> is_external]>> \o rest
                          ELSE rest

\* _extract_links, lines 383-435, from the response to the returned dict.
ExtractLinksResult(d, args, resp) ==
    LET end == ExtractLinksEnd(args, resp)
        ls == LinkInfos(d, args.url, Get(args, "include_anchors", FALSE),
                        Get(args, "filter_internal", FALSE),
                        Get(args, "filter_external", FALSE))
    IN  IF "error" \in DOMAIN end THEN end
        ELSE end @@ [total_links |-> Len(ls),
                     internal_count |->
                         Len(SelectSeq(ls, LAMBDA l : l.is_internal)),
                     external_count |->
                         Len(SelectSeq(ls, LAMBDA l : l.is_external)),
                     links |-> ls]

\* The args of extract_links: each flag left out or set.
LinkFlags == {"include_anchors", "filter_internal", "filter_external"}
LinkArgs ==
    {[url |-> u] @@ [k \in ks |-> TRUE] : u \in LinkUrls, ks \in SUBSET LinkFlags}

\* The server's body grows by an anchor.
AddAnchor(a) ==
    /\ links = None
    /\ Len(doc) < MaxAnchors
    /\ doc' = Append(doc, a)
    /\ UNCHANGED <<srv, reply, sessVars, op, batchVars, page, links, search>>

ExtractLinksBody(args, resp) ==
    /\ links = None
    /\ links' = [args |-> args, result |-> ExtractLinksResult(doc, args, resp)]
    /\ UNCHANGED <<srv, reply, sessVars, op, batchVars, doc, page, search>>

LinkNext ==
    \/ \E a \in Anchors : AddAnchor(a)
    \/ \E args \in LinkArgs, resp \in PageResponses :
          ExtractLinksBody(args, resp)

LinkSpec == Init /\ [][LinkNext]_vars

----------------------------------------------------------------------------
(* Claims about extract_links *)

LinksSucceeded == links # None /\ "error" \notin DOMAIN links.result
Flag(key) == Get(links.args, key, FALSE)

\* The page https://a.com/p holding hrefs /x, https://b.com/y and #frag.
ExamplePage ==
    <<[tag |-> "a", href |-> Url("", "", "/x", "")],
      [tag |-> "a", href |-> Url("https", "b.com", "/y", "")],
      [tag |-> "a", href |-> Url("", "", "", "frag")]>>

\* C16: with no filter set, the links are the anchors that have an href, in
\* document order with duplicates kept, each resolved against the page URL,
\* less the hrefs starting with '#' unless include_anchors is set; the page
\* https://a.com/p with /x, https://b.com/y and #frag and include_anchors
\* false gives https://a.com/x (internal) and https://b.com/y (external).
C16_OneLinkPerAnchor ==
    LinksSucceeded /\ ~Flag("filter_internal") /\ ~Flag("filter_external") =>
        LET kept == SelectSeq(doc, LAMBDA n :
                        HasHref(n) /\ (Flag("include_anchors")
                                          \/ ~StartsWithHash(n.href)))
            ls == links.result.links
        IN  /\ Len(ls) = Len(kept)
            /\ links.result.total_links = Len(kept)
            /\ \A i \in 1..Len(kept) :
                  ls[i].url = Urljoin(links.args.url, kept[i].href)
            /\ doc = ExamplePage /\ ~Flag("include_anchors")
                  /\ links.args.url = Url("https", "a.com", "/p", "") =>
                  ls = <<[url |-> Url("https", "a.com", "/x", ""),
                          is_internal |-> TRUE, is_external |-> FALSE],
                         [url |-> Url("https", "b.com", "/y", ""),
                          is_internal |-> FALSE, is_external |-> TRUE]>>

C16_Witness ==
    /\ LinksSucceeded
    /\ doc = ExamplePage
    /\ links.args = [url |-> Url("https", "a.com", "/p", "")]
    /\ links.result.total_links = 2

\* C17: no link record is both internal and external; it is internal exactly
\* when its resolved URL's host is the page's host; a resolved URL with an
\* empty host is neither.
C17_InternalExternal ==
    LinksSucceeded =>
        \A i \in 1..Len(links.result.links) :
            LET l == links.result.links[i]
            IN  /\ ~(l.is_internal /\ l.is_external)
                /\ l.is_internal <=> l.url.netloc = links.args.url.netloc
                /\ l.url.netloc = "" => ~l.is_internal /\ ~l.is_external

\* A result holding a mailto link, an internal link and an external link.
C17_Witness ==
    /\ LinksSucceeded
    /\ \E i, j, k \in 1..Len(links.result.links) :
          /\ links.result.links[i].url.scheme = "mailto"
          /\ links.result.links[j].is_internal
          /\ links.result.links[k].is_external

\* The links of the same call with neither filter set.
Unfiltered ==
    LinkInfos(doc, links.args.url, Flag("include_anchors"), FALSE, FALSE)

\* C18: filter_internal alone keeps exactly the non-skipped links that are
\* internal, filter_external alone exactly the external ones, neither keeps
\* them all, and both together keep none: all three counts are 0.
C18_IndependentFilters ==
    LinksSucceeded =>
        LET r == links.result
            fi == Flag("filter_internal")
            fe == Flag("filter_external")
        IN  /\ fi /\ ~fe =>
                  r.links = SelectSeq(Unfiltered, LAMBDA l : l.is_internal)
            /\ fe /\ ~fi =>
                  r.links = SelectSeq(Unfiltered, LAMBDA l : l.is_external)
            /\ ~fi /\ ~fe => r.links = Unfiltered
            /\ fi /\ fe =>
                  /\ r.links = <<>>
                  /\ r.total_links = 0
                  /\ r.internal_count = 0
                  /\ r.external_count = 0

\* Both filters set on a page that has an internal and an external link.
C18_Witness ==
    /\ LinksSucceeded
    /\ Flag("filter_internal") /\ Flag("filter_external")
    /\ \E i, j \in 1..Len(Unfiltered) :
          Unfiltered[i].is_internal /\ Unfiltered[j].is_external
    /\ links.result.total_links = 0

----------------------------------------------------------------------------
(* _search_webpage_content: the scan of the fetched content for the terms.
   Strings are sequences of characters, positions count from 0 as in Python. *)

MaxContentLen == 3
MaxTerms == 2
MaxTermChars == 2

\* "I" stands for U+0130, whose lower() is the two characters "i", ".".
SearchChars == {"a", "A", "I"}

\* context_chars as the caller gives it (left out: 200).
DefaultContextChars == 200
ContextCharsGiven == {0, 3}

\* str.lower()
LowerChar(c) ==
    CASE c = "A" -> <<"a">>
      [] c = "I" -> <<"i", ".">>
      [] OTHER -> <<c>>

RECURSIVE Lower(_)
Lower(s) == IF s = <<>> THEN <<>> ELSE LowerChar(Head(s)) \o Lower(Tail(s))

RECURSIVE LowerAll(_)
LowerAll(ts) ==
    IF ts = <<>> THEN <<>> ELSE <<Lower(Head(ts))>> \o LowerAll(Tail(ts))

\* s.find(term, start): the lowest index from start on where term stands,
\* or -1; the empty term stands at every index up to len(s).
Find_Last(s, term, start) ==
    LET ps == {i \in start..(Len(s) - Len(term)) :
                  SubSeq(s, i + 1, i + Len(term)) = term}
    IN  IF ps = {} THEN -1 ELSE CHOOSE i \in ps : \A j \in ps : i >= j

Find(s, term, start) ==
    LET ps == {i \in start..(Len(s) - Len(term)) :
                  SubSeq(s, i + 1, i + Len(term)) = term}
    IN  IF ps = {} THEN -1 ELSE CHOOSE i \in ps : \A j \in ps : i <= j

\* s[a:b] for 0 <= a, 0 <= b
Slice(s, a, b) ==
    LET hi == IF b < Len(s) THEN b ELSE Len(s)
    IN  IF a >= hi THEN <<>> ELSE SubSeq(s, a + 1, hi)

Max(a, b) == IF a >= b THEN a ELSE b
Min(a, b) == IF a <= b THEN a ELSE b

\* start = pos + 1
NextStart_PastMatch(pos, term) == pos + Max(1, Len(term))

NextStart(pos, term) == pos + 1

\* context = content[context_start:context_end]
ContextOf_Searched(content, search_content, context_start, context_end) ==
    Slice(search_content, context_start, context_end)

ContextOf(content, search_content, context_start, context_end) ==
    Slice(content, context_start, context_end)

\* Lines 350-360: the record of the match at pos.
MatchAt(content, search_content, term, pos, context_chars) ==
    LET context_start == Max(0, pos - context_chars \div 2)
        context_end ==
            Min(Len(content), pos + Len(term) + context_chars \div 2)
    IN  [term |-> term, position |-> pos,
         context |-> ContextOf(content, search_content, context_start,
                               context_end),
         context_start |-> context_start, context_end |-> context_end]

\* The `while True` loop of lines 343-362 for one term.
RECURSIVE Scan(_, _, _, _, _)
Scan(content, search_content, term, start, context_chars) ==
    LET pos == Find(search_content, term, start)
    IN  IF pos = -1 THEN <<>>
        ELSE <<MatchAt(content, search_content, term, pos, context_chars)>>
                \o Scan(content, search_content, term, NextStart(pos, term),
                        context_chars)

\* for term in search_terms: ...
RECURSIVE ScanAll(_, _, _, _)
ScanAll(content, search_content, search_terms, context_chars) ==
    IF search_terms = <<>> THEN <<>>
    ELSE Scan(content, search_content, Head(search_terms), 0, context_chars)
            \o ScanAll(content, search_content, Tail(search_terms),
                       context_chars)

\* _search_webpage_content, lines 331-370, given the content _fetch_webpage
\* returned.
SearchResult(content, args, resp) ==
    LET end == SearchEnd(args, resp)
        case_sensitive == Get(args, "case_sensitive", FALSE)
        context_chars == Get(args, "context_chars", DefaultContextChars)
        search_content == IF case_sensitive THEN content ELSE Lower(content)
        search_terms == IF case_sensitive THEN args.search_terms
                        ELSE LowerAll(args.search_terms)
        matches == ScanAll(content, search_content, search_terms,
                           context_chars)
    IN  IF "error" \in DOMAIN end THEN end
        ELSE end @@ [total_matches |-> Len(matches), matches |-> matches,
                     content_length |-> Len(content)]

\* The content being fetched and the terms being asked for, before the call.
NewSearch == [content |-> <<>>, terms |-> <<>>, returned |-> FALSE]
Pending == IF search = None THEN NewSearch ELSE search

RECURSIVE TermChars(_)
TermChars(ts) ==
    IF ts = <<>> THEN 0 ELSE Len(Head(ts)) + TermChars(Tail(ts))

\* The options of a search call: each left out or given.
SearchOptions ==
    {<<>>, [case_sensitive |-> TRUE]}
        \cup {[context_chars |-> c] : c \in ContextCharsGiven}
        \cup {[case_sensitive |-> TRUE, context_chars |-> c] :
                 c \in ContextCharsGiven}

ContentChar(c) ==
    /\ ~Pending.returned
    /\ Len(Pending.content) < MaxContentLen
    /\ search' = [Pending EXCEPT !.content = Append(@, c)]
    /\ UNCHANGED <<srv, reply, sessVars, op, batchVars, doc, page, links>>

NewTerm ==
    /\ ~Pending.returned
    /\ Len(Pending.terms) < MaxTerms
    /\ search' = [Pending EXCEPT !.terms = Append(@, <<>>)]
    /\ UNCHANGED <<srv, reply, sessVars, op, batchVars, doc, page, links>>

TermChar(c) ==
    /\ ~Pending.returned
    /\ Pending.terms # <<>>
    /\ TermChars(Pending.terms) < MaxTermChars
    /\ search' = [Pending EXCEPT
                     !.terms[Len(Pending.terms)] = Append(@, c)]
    /\ UNCHANGED <<srv, reply, sessVars, op, batchVars, doc, page, links>>

SearchBody(options, resp) ==
    /\ ~Pending.returned
    /\ LET args == [url |-> "u1", search_terms |-> Pending.terms] @@ options
       IN  search' = [content |-> Pending.content, terms |-> Pending.terms,
                      returned |-> TRUE, args |-> args,
                      result |-> SearchResult(Pending.content, args, resp)]
    /\ UNCHANGED <<srv, reply, sessVars, op, batchVars, doc, page, links>>

SearchNext ==
    \/ \E c \in SearchChars : ContentChar(c)
    \/ NewTerm
    \/ \E c \in SearchChars : TermChar(c)
    \/ \E options \in SearchOptions, resp \in PageResponses :
          SearchBody(options, resp)

SearchSpec == Init /\ [][SearchNext]_vars

----------------------------------------------------------------------------
(* Claims about search_webpage_content *)

SearchSucceeded ==
    search # None /\ search.returned /\ "error" \notin DOMAIN search.result

CaseSensitive == Get(search.args, "case_sensitive", FALSE)

\* The content and a term as the scan compares them.
Normalised(s) == IF CaseSensitive THEN s ELSE Lower(s)

\* The positions at which t stands in s.
Occurrences(s, t) ==
    {p \in 0..(Len(s) - Len(t)) : \A i \in 1..Len(t) : s[p + i] = t[i]}

MatchesOf(t) ==
    SelectSeq(search.result.matches, LAMBDA m : m.term = t)

TermsLike(t) == SelectSeq(search.terms, LAMBDA u : Normalised(u) = t)

\* C19: for every non-empty term the matches reported for it are exactly the
\* positions at which the term occurs in the case-normalised content, once
\* per position, overlapping occurrences included; content "aaa" and term
\* "aa", case-sensitive, gives the two matches at 0 and 1.
C19_AllOccurrences ==
    SearchSucceeded =>
        /\ \A k \in 1..Len(search.terms) :
              LET t == Normalised(search.terms[k])
                  ms == MatchesOf(t)
                  occ == Occurrences(Normalised(search.content), t)
              IN  t # <<>> =>
                    /\ {ms[i].position : i \in 1..Len(ms)} = occ
                    /\ Len(ms) = Cardinality(occ) * Len(TermsLike(t))
        /\ search.content = <<"a", "a", "a">>
              /\ search.terms = <<<<"a", "a">>>> /\ CaseSensitive =>
              /\ search.result.total_matches = 2
              /\ search.result.matches[1].position = 0
              /\ search.result.matches[2].position = 1

C19_Witness ==
    /\ SearchSucceeded
    /\ CaseSensitive
    /\ search.content = <<"a", "a", "a">>
    /\ search.terms = <<<<"a", "a">>>>
    /\ search.result.total_matches = 2

\* C20: with case_sensitive false every match is an occurrence of a
\* lower-cased term in the lower-cased content, every such occurrence is
\* matched, and each context is the slice of the content as fetched, in its
\* own casing, from context_start to context_end.
C20_CaseInsensitive ==
    SearchSucceeded /\ ~CaseSensitive =>
        LET ms == search.result.matches
        IN  /\ \A i \in 1..Len(ms) :
                  /\ \E k \in 1..Len(search.terms) :
                        ms[i].term = Lower(search.terms[k])
                  /\ ms[i].term # <<>> =>
                        ms[i].position
                            \in Occurrences(Lower(search.content), ms[i].term)
                  /\ Len(ms[i].context)
                        = Max(0, ms[i].context_end - ms[i].context_start)
                  /\ \A j \in 1..Len(ms[i].context) :
                        ms[i].context[j]
                            = search.content[ms[i].context_start + j]
            /\ \A k \in 1..Len(search.terms) :
                  \A p \in Occurrences(Lower(search.content),
                                       Lower(search.terms[k])) :
                      \E i \in 1..Len(ms) :
                          /\ ms[i].position = p
                          /\ ms[i].term = Lower(search.terms[k])

\* An upper-case term found at a lower-case and at an upper-case occurrence,
\* the context showing the content's own upper-case letter.
C20_Witness ==
    /\ SearchSucceeded
    /\ ~CaseSensitive
    /\ search.content = <<"a", "A">>
    /\ search.terms = <<<<"A">>>>
    /\ search.result.total_matches = 2
    /\ \E i \in 1..2 : \E j \in 1..Len(search.result.matches[i].context) :
          search.result.matches[i].context[j] = "A"

\* context_chars of the returned search call.
ContextChars == Get(search.args, "context_chars", DefaultContextChars)

\* C21: every match at offset p of a term of length n has
\* context_start = max(0, p - c div 2),
\* context_end = min(len(content), p + n + c div 2), the context
\* content[context_start:context_end], and 0 <= context_start <= p and
\* p + n <= context_end <= len(content): the window holds the whole match
\* and stays inside the content.
C21_WindowHoldsMatch ==
    SearchSucceeded =>
        \A i \in 1..Len(search.result.matches) :
            LET m == search.result.matches[i]
                p == m.position
                n == Len(m.term)
                half == ContextChars \div 2
                len == Len(search.content)
            IN  /\ m.context_start = (IF p - half > 0 THEN p - half ELSE 0)
                /\ m.context_end
                      = (IF p + n + half < len THEN p + n + half ELSE len)
                /\ m.context = Slice(search.content, m.context_start,
                                     m.context_end)
                /\ 0 <= m.context_start /\ m.context_start <= p
                /\ p + n <= m.context_end /\ m.context_end <= len

\* The number of matches due to the first k terms: term j stands at
\* Occurrences(...) positions of the searched content.
RECURSIVE MatchesUpTo(_)
MatchesUpTo(k) ==
    IF k = 0 THEN 0
    ELSE MatchesUpTo(k - 1)
            + Cardinality(Occurrences(Normalised(search.content),
                                      Normalised(search.terms[k])))

\* C22: the match sequence is one block per term in the caller's term order,
\* each block in strictly increasing offset order; total_matches is the
\* length of the sequence; an empty term list gives an empty sequence.
C22_TermThenOffsetOrder ==
    SearchSucceeded =>
        LET ms == search.result.matches
        IN  /\ search.result.total_matches = Len(ms)
            /\ Len(ms) = MatchesUpTo(Len(search.terms))
            /\ \A k \in 1..Len(search.terms) :
                  \A i \in (MatchesUpTo(k - 1) + 1)..MatchesUpTo(k) :
                      /\ ms[i].term = Normalised(search.terms[k])
                      /\ i > MatchesUpTo(k - 1) + 1 =>
                            ms[i - 1].position < ms[i].position
            /\ search.terms = <<>> => ms = <<>>

\* The first term's only match lies behind the second term's: term order,
\* not offset order, decides.
C22_Witness ==
    /\ SearchSucceeded
    /\ CaseSensitive
    /\ search.content = <<"I", "a", "a">>
    /\ search.terms = <<<<"a">>, <<"I">>>>
    /\ search.result.total_matches = 3
    /\ search.result.matches[3].position = 0

\* C29: the scan of each term ends, its hits at strictly increasing
\* positions, with at most len(content) + 1 matches for one term, the empty
\* term and a term longer than the content included.
C29_ScanBounded ==
    SearchSucceeded =>
        LET ms == search.result.matches
        IN  \A k \in 1..Len(search.terms) :
                /\ \A i \in (MatchesUpTo(k - 1) + 2)..MatchesUpTo(k) :
                      ms[i - 1].position < ms[i].position
                /\ MatchesUpTo(k) - MatchesUpTo(k - 1)
                      <= Len(search.content) + 1

----------------------------------------------------------------------------
(* Further properties of fetch_multiple_pages *)

\* Task i of the tasks t has entered `async with semaphore` and begun its
\* _fetch_webpage.
Started(t, i) == t[i].pc \in {"fetching", "done"}

\* C27: URLs are admitted in input order: a step that admits urls[j] finds
\* every urls[i] with i < j admitted already, in whatever order the fetches
\* then end.
C27_AdmittedInInputOrder ==
    [][\A j \in 1..MaxUrls :
          (j \in Tasks /\ j \in DOMAIN task'
                /\ ~Started(task, j) /\ Started(task', j)) =>
              \A i \in 1..(j - 1) : Started(task, i)]_vars

\* The third URL waited, the second fetch ended first, and the third is
\* fetching while the first still is.
C27_Witness ==
    /\ bpc = "gathering"
    /\ Len(bargs.urls) = 3
    /\ MaxConcurrentOf = 2
    /\ doneOrder = <<2>>
    /\ task[1].pc = "fetching"
    /\ task[3].pc = "fetching"

\* C28: for every URL list and every max_concurrent >= 0 the batch returns
\* its aggregate, given that every single-page fetch ends; no URL waits for
\* a slot forever.
C28_BatchReturns ==
    (bpc = "gathering") ~> (bpc = "returned")

----------------------------------------------------------------------------
(* Operations interleaved with cleanup() *)

----------------------------------------------------------------------------
(* _extract_metadata over documents of html, meta and link elements *)

MaxMetaNodes == 3

\* <html>, <html lang="en">, <meta name=... content=...>,
\* <meta property="og:title" content=...>, <meta name="keywords"> (no
\* content), <link rel="canonical" href="/canon">.
MetaNodes ==
    {[tag |-> "html"], [tag |-> "html", lang |-> "en"],
     [tag |-> "meta", name |-> "keywords"],
     [tag |-> "link", rel |-> "canonical", href |-> "/canon"]}
        \cup {[tag |-> "meta", name |-> n, content |-> c] :
                 n \in {"description", "Description", "keywords"},
                 c \in {"c1", "c2"}}
        \cup {[tag |-> "meta", property |-> "og:title", content |-> c] :
                 c \in {"c1", "c2"}}

\* The server's body grows by an element.
AddMetaNode(n) ==
    /\ page = None
    /\ Len(doc) < MaxMetaNodes
    /\ doc' = Append(doc, n)
    /\ UNCHANGED <<srv, reply, sessVars, op, batchVars, page, links, search>>

\* _extract_metadata is applied to the body.
ExtractMetadataBody ==
    /\ page = None
    /\ page' = [kind |-> "_extract_metadata", args |-> [url |-> "u1"],
                extracted |-> None, ran |-> {},
                result |-> ExtractMetadata(doc, "u1")]
    /\ UNCHANGED <<srv, reply, sessVars, op, batchVars, doc, links, search>>

MetaNext ==
    \/ \E n \in MetaNodes : AddMetaNode(n)
    \/ ExtractMetadataBody

MetaSpec == Init /\ [][MetaNext]_vars

\* The metadata extracted from the body.
MetadataReturned == page # None /\ page.kind = "_extract_metadata"

\* The meta tags of the body whose name or property, lower-cased, is n.
MetasNamed(n) ==
    SelectSeq(doc, LAMBDA e :
        /\ e.tag = "meta"
        /\ \/ Get(e, "name", "") = n
           \/ n = "description" /\ Get(e, "name", "") = "Description"
           \/ Get(e, "property", "") = n)

\* C23: of several meta tags with the same recognised name or property,
\* compared without regard to case, the first in document order gives the
\* field its value.
C23_FirstMetaWins ==
    MetadataReturned =>
        /\ MetasNamed("description") # <<>> =>
              page.result.description
                  = Get(MetasNamed("description")[1], "content", "")
        /\ MetasNamed("keywords") # <<>> =>
              page.result.keywords
                  = Get(MetasNamed("keywords")[1], "content", "")
        /\ MetasNamed("og:title") # <<>> =>
              page.result.og_title
                  = Get(MetasNamed("og:title")[1], "content", "")

\* C24: language is the lang attribute of the html element and "" when the
\* attribute or the element is missing; canonical_url, when a canonical link
\* exists, is its href as written.
C24_LanguageAndCanonical ==
    MetadataReturned =>
        LET htmls == SelectSeq(doc, LAMBDA e : e.tag = "html")
            canon == SelectSeq(doc, LAMBDA e : e.tag = "link")
        IN  /\ "language" \in DOMAIN page.result
            /\ page.result.language
                  = (IF htmls # <<>> THEN Get(htmls[1], "lang", "") ELSE "")
            /\ canon # <<>> => page.result.canonical_url = canon[1].href

----------------------------------------------------------------------------
(* Tool calls whose args may lack a required field *)

ToolKinds == OpKinds \cup {"fetch_multiple_pages"}

\* The keys each handler reads with args[...] in its first lines, before it
\* does anything else.
RequiredFields(kind) ==
    CASE kind = "search_webpage_content" -> {"url", "search_terms"}
      [] kind = "fetch_multiple_pages" -> {"urls"}
      [] OTHER -> {"url"}

\* args["url"] and the like raise KeyError.
LacksField(kind, args) == RequiredFields(kind) \ DOMAIN args # {}

KeyError == [exc |-> "KeyError", code |-> 0]

\* The args of the calls followed here: complete ones, and ones with a
\* misspelt or missing key.  A fetch_multiple_pages call that has its urls is
\* followed by BatchSpec.
RequestArgs(kind) ==
    CASE kind = "fetch_multiple_pages" ->
            {[uri |-> "u1"], [max_concurrent |-> 1]}
      [] kind = "search_webpage_content" ->
            ArgsOf(kind) \cup {[uri |-> "u1"], [url |-> "u1"],
                               [search_terms |-> <<"term">>]}
      [] kind = "fetch_webpage" ->
            ArgsOf(kind) \cup {[uri |-> "u1"], [timeout |-> 5]}
      [] OTHER -> ArgsOf(kind) \cup {[uri |-> "u1"]}

\* A tool is called: the handler reads its required args first, then goes on
\* as CallOp says.
CallTool(o, kind, args, fails) ==
    IF LacksField(kind, args)
        THEN /\ op[o].pc = "idle"
             /\ op' = [op EXCEPT ![o] =
                          [pc |-> "raised", kind |-> kind, args |-> args,
                           used |-> 0, sess |-> NoSession, resp |-> None,
                           result |-> KeyError]]
             /\ UNCHANGED <<sessVars, batchVars, srv, bodyVars>>
        ELSE CallOp(o, kind, args, fails)

RequestNext ==
    \/ \E o \in 1..MaxOps, kind \in ToolKinds, fails \in BOOLEAN :
          \E args \in RequestArgs(kind) : CallTool(o, kind, args, fails)
    \/ \E o \in 1..MaxOps, resp \in Responses : CompleteOp(o, resp)

RequestSpec == Init /\ [][RequestNext]_vars

\* C25: a call that lacks a required field is rejected by raising, with no
\* GET issued and the session neither created nor reconfigured, and no call
\* that has its required fields ends by raising.
C25_OnlyMissingFieldRaises ==
    /\ [](\A o \in Called :
            /\ LacksField(op[o].kind, op[o].args) =>
                  /\ op[o].pc = "raised"
                  /\ op[o].sess = NoSession
            /\ ~LacksField(op[o].kind, op[o].args) => op[o].pc # "raised")
    /\ [][\A o \in 1..MaxOps :
            (op[o].pc = "idle" /\ op'[o].pc # "idle"
                  /\ LacksField(op'[o].kind, op'[o].args)) =>
                UNCHANGED <<session, opened, closed, sessTimeout>>]_vars

----------------------------------------------------------------------------
(* The HTTP server's POST routes, http_server.py *)

MaxRequests == 2

\* The POST routes in the order setup_routes registers them; a path is the
\* sequence of its segments.
PostRoutes ==
    <<[path |-> <<"tools", "{tool_name}">>, endpoint |-> "call_tool"],
      [path |-> <<"tools", "call">>, endpoint |-> "call_tool_generic"],
      [path |-> <<"fetch">>, endpoint |-> "fetch_webpage_endpoint"],
      [path |-> <<"fetch-multiple">>, endpoint |-> "fetch_multiple_endpoint"],
      [path |-> <<"search">>, endpoint |-> "search_endpoint"],
      [path |-> <<"links">>, endpoint |-> "links_endpoint"],
      [path |-> <<"metadata">>, endpoint |-> "metadata_endpoint"]>>

\* Whether a route's path matches a request's: a path parameter matches any
\* one segment.
RouteMatches(route_path, path) ==
    /\ Len(route_path) = Len(path)
    /\ \A i \in 1..Len(path) :
          route_path[i] = path[i] \/ route_path[i] = "{tool_name}"

\* The router hands the request to the first route that matches.
RouteOf(path) ==
    LET is == {i \in 1..Len(PostRoutes) : RouteMatches(PostRoutes[i].path, path)}
    IN  IF is = {} THEN None
        ELSE PostRoutes[CHOOSE i \in is : \A j \in is : i <= j]

\* call_tool(tool_name, request), lines 137-165.  The HTTPException for an
\* unknown tool is raised inside the try block and caught by its
\* `except Exception`.  The run of the tool itself is what CallOp and
\* CallBatch follow; here the result names the tool and the args it got.
CallToolHttp(tool_name, request) ==
    IF tool_name \notin ToolKinds
        THEN [success |-> FALSE,
              error |-> <<"404: Tool '", tool_name, "' not found">>]
        ELSE [success |-> TRUE,
              result |-> [tool |-> tool_name, arguments |-> request]]

\* What the endpoint a request was routed to answers, lines 136-200.
Respond(route, path, body) ==
    IF route = None THEN [status |-> 404]
    ELSE IF route.endpoint = "call_tool" THEN CallToolHttp(path[2], body)
    ELSE IF route.endpoint = "call_tool_generic"
        THEN IF {"tool_name", "arguments"} \subseteq DOMAIN body
                 THEN CallToolHttp(body.tool_name, body.arguments)
                 ELSE [status |-> 422]
    ELSE IF route.endpoint = "fetch_webpage_endpoint"
        THEN CallToolHttp("fetch_webpage", body)
    ELSE IF route.endpoint = "fetch_multiple_endpoint"
        THEN CallToolHttp("fetch_multiple_pages", body)
    ELSE IF route.endpoint = "search_endpoint"
        THEN CallToolHttp("search_webpage_content", body)
    ELSE IF route.endpoint = "links_endpoint"
        THEN CallToolHttp("extract_links", body)
    ELSE CallToolHttp("get_page_metadata", body)

\* The paths and JSON bodies the clients post.
PostPaths ==
    {<<"tools", t>> : t \in {"fetch_webpage", "extract_links", "call", "nope"}}
        \cup {<<"fetch">>, <<"fetch-multiple">>, <<"search">>, <<"links">>,
              <<"metadata">>, <<"search", "x">>}

PostBodies ==
    {[url |-> "u1"]}
        \cup {[tool_name |-> t, arguments |-> [url |-> "u1"]] :
                 t \in {"fetch_webpage", "get_page_metadata", "nope"}}

\* The server answers a POST request.
HttpPost(path, body) ==
    /\ Len(reply) < MaxRequests
    /\ reply' = Append(reply,
                       [path |-> path, body |-> body,
                        endpoint |-> IF RouteOf(path) = None THEN "none"
                                     ELSE RouteOf(path).endpoint,
                        response |-> Respond(RouteOf(path), path, body)])
    /\ UNCHANGED <<srv, sessVars, op, batchVars, doc, page, links, search>>

HttpNext == \E path \in PostPaths, body \in PostBodies : HttpPost(path, body)

HttpSpec == Init /\ [][HttpNext]_vars

\* C26: a POST to /tools/call whose body names one of the five tools in
\* tool_name reaches the generic endpoint, which calls that tool with the
\* body's arguments and answers {success: true, result}; the request is not
\* taken by /tools/{tool_name} with tool_name = "call".
C26_GenericCallRoute ==
    \A i \in 1..Len(reply) :
        (/\ reply[i].path = <<"tools", "call">>
         /\ "tool_name" \in DOMAIN reply[i].body
         /\ reply[i].body.tool_name \in ToolKinds) =>
            /\ reply[i].endpoint = "call_tool_generic"
            /\ reply[i].response
                  = [success |-> TRUE,
                     result |-> [tool |-> reply[i].body.tool_name,
                                 arguments |-> reply[i].body.arguments]]

====
